---------------------------- MODULE Spec2Model ----------------------------
(***************************************************************************)
(* The notebook serve-machine-learning-models-with-clipper.ipynb drives a  *)
(* Clipper cluster through its administrative client.  The state is the    *)
(* notebook kernel's global `model` plus the registry the calls build up   *)
(* (applications, model versions, links, replica counts); every code cell  *)
(* that calls the cluster is an action, with its arguments drawn from the  *)
(* values the notebook uses.  Cells can be run in any order and re-run, so *)
(* a call whose precondition does not hold fails and changes nothing but   *)
(* the recorded outcome.                                                   *)
(***************************************************************************)
EXTENDS Naturals, Sequences, FiniteSets

\* ----- values the notebook uses -----
AppNames == {"boston", "boston-new"}
ModelNames == {"tree-model", "forest-model"}
\* the fitted regressors the global `model` is pointed at
Artifacts == {"tree_v1", "forest_v1", "forest_v2"}
DefaultOutputs == {"-1.0"}
\* deploy_python_closure is given version=1 / version=2 (integers) ...
Versions == {1, 2}
\* ... and set_model_version / set_num_replicas are given version='1' (text):
\* the client turns the version into text, str(version)
Str(v) == IF v = 1 THEN "1" ELSE IF v = 2 THEN "2" ELSE "3"
VersionIds == {Str(v) : v \in Versions}
\* the (name, version) pairs the notebook deploys
Deployments == {<<"tree-model", 1>>, <<"forest-model", 1>>, <<"forest-model", 2>>}
Keys == ModelNames \X VersionIds
\* "Point to the tree model" before tree-model is deployed, "replace the model in
\* the closure function" by a forest before forest-model is: the regressors the
\* notebook has `model` point at when it deploys under each name
Fitting(name) ==
    IF name = "tree-model" THEN {"tree_v1"} ELSE {"forest_v1", "forest_v2"}
\* inputs = boston.data[-1]
Inputs == {"last_row"}
MaxReplicas == 2
\* set_num_replicas('forest-model', ..., version='1')
ScaleTargets == {<<"forest-model", "1">>}

None == "none"

VARIABLES
    model,        \* the kernel's global `model` that predict reads
    apps,         \* application name -> its default_output, None when not registered
    versions,     \* model name -> the version ids deployed, in deploy order
    artifact,     \* (model name, version id) -> the closure that version serves
    active,       \* the (model name, version id) pairs marked active
    links,        \* the (application, model name) links
    desired,      \* (model name, version id) -> replicas asked for
    running,      \* (model name, version id) -> healthy replicas
    deployedWith, \* history: the value `model` had when the version was deployed
    last          \* the latest call and its outcome

vars == <<model, apps, versions, artifact, active, links, desired, running,
          deployedWith, last>>

\* ----- reading the registry -----
Registered(a) == apps[a] # None
VersionsOf(m) == {versions[m][i] : i \in 1..Len(versions[m])}
ActiveOf(m) == {k[2] : k \in {x \in active : x[1] = m}}
LinkedModels(a) == {m \in ModelNames : <<a, m>> \in links}
Health(m, vs) == running[<<m, vs>>]

\* predict(inputs): str() of the captured regressor's prediction for the input
predict(art, x) == <<art, x>>

\* the answer of POST /<app>/predict
Reply(st, out, dflt) == [status |-> st, output |-> out, default |-> dflt]
DefaultReply(a) == Reply("ok", <<apps[a]>>, TRUE)
\* a router that forwards to the active version without looking at its replicas
RouteIgnoringHealth(a, x) ==
    IF ~Registered(a) THEN Reply("no_endpoint", <<>>, FALSE)
    ELSE IF LinkedModels(a) = {} THEN DefaultReply(a)
    ELSE LET m == CHOOSE mm \in LinkedModels(a) : TRUE
         IN  IF ActiveOf(m) = {} THEN DefaultReply(a)
             ELSE Reply("ok", predict(artifact[<<m, CHOOSE vs \in ActiveOf(m) : TRUE>>], x), FALSE)
Route(a, x) ==
    IF ~Registered(a) THEN Reply("no_endpoint", <<>>, FALSE)
    ELSE IF LinkedModels(a) = {} THEN DefaultReply(a)
    ELSE LET m == CHOOSE mm \in LinkedModels(a) : TRUE
             up == {vs \in ActiveOf(m) : Health(m, vs) >= 1}
         IN  IF up = {} THEN DefaultReply(a)
             ELSE Reply("ok", predict(artifact[<<m, CHOOSE vs \in up : TRUE>>], x), FALSE)

\* ----- why an administrative call is refused (the control plane's error list;
\* the notebook itself only shows calls that succeed) -----
AlreadyExists(name) == Registered(name)
VersionExists(m, vs) == vs \in VersionsOf(m)
LinkNotFound(a, m) == ~Registered(a) \/ versions[m] = <<>>
VersionNotFound(m, vs) == vs \notin VersionsOf(m)
\* a link call that never looks at the links the application has
NeverLinked(a) == FALSE
\* "one app can be linked to one model only"
AlreadyLinked(a) == LinkedModels(a) # {}

\* ----- what a successful call writes -----
\* the deployed closure is serialised with the value `model` has at the call
Snapshot == model
\* a deploy that marks the new version active and forgets to unmark the old one
ActivateKeepingOld(m, vs) == active \cup {<<m, vs>>}
\* a deploy that makes the new version active only when the model had none
ActivateOnlyFirst(m, vs) ==
    IF \E k \in active : k[1] = m THEN active ELSE active \cup {<<m, vs>>}
\* "by default the query is routed to the latest version"
ActivateOnDeploy(m, vs) == {k \in active : k[1] # m} \cup {<<m, vs>>}
\* a version switch that ignores the version asked for and takes the latest
SwitchToLatest(m, vs) ==
    {k \in active : k[1] # m} \cup {<<m, versions[m][Len(versions[m])]>>}
\* set_model_version(name, version): rollback
SwitchActive(m, vs) == {k \in active : k[1] # m} \cup {<<m, vs>>}
AddLink(a, m) == links \cup {<<a, m>>}
\* a call that adds num_replicas to the count instead of setting it
AddedReplicas(k, n) == desired[k] + n
\* set_num_replicas(name, num_replicas, version)
RequestedReplicas(k, n) == n

\* the outcome of the latest call: an administrative call leaves its result, a
\* query the application asked and the reply it got
Called(op, res) ==
    [op |-> op, res |-> res, app |-> None, reply |-> Reply(None, <<>>, FALSE)]

Init ==
    /\ model = None
    /\ apps = [a \in AppNames |-> None]
    /\ versions = [m \in ModelNames |-> <<>>]
    /\ artifact = [k \in Keys |-> None]
    /\ deployedWith = [k \in Keys |-> None]
    /\ active = {}
    /\ links = {}
    /\ desired = [k \in Keys |-> 0]
    /\ running = [k \in Keys |-> 0]
    /\ last = Called(None, None)

\* deployed closures that keep reading the kernel's `model` after the deploy
AssignModelShared(a) ==
    /\ model' = a
    /\ artifact' = [k \in Keys |-> IF artifact[k] = None THEN None ELSE a]
    /\ UNCHANGED <<apps, versions, active, links, desired, running,
                   deployedWith, last>>

\* model = tree_v1 / model = forest_v1 / model = forest_v2
AssignModel(a) ==
    /\ model' = a
    /\ UNCHANGED <<apps, versions, artifact, active, links, desired, running,
                   deployedWith, last>>

\* clipper_conn.register_application(name, "doubles", default_output, 100000)
register_application(name, dflt) ==
    IF AlreadyExists(name)
    THEN /\ last' = Called("register_application", "AlreadyExists")
         /\ UNCHANGED <<model, apps, versions, artifact, active, links, desired,
                        running, deployedWith>>
    ELSE /\ apps' = [apps EXCEPT ![name] = dflt]
         /\ last' = Called("register_application", "ok")
         /\ UNCHANGED <<model, versions, artifact, active, links, desired,
                        running, deployedWith>>

\* deploy_python_closure(clipper_conn, name, version, "doubles", func=predict)
deploy_python_closure(name, version) ==
    /\ model \in Fitting(name)
    /\ LET vs == Str(version)
           k == <<name, vs>>
       IN  IF VersionExists(name, vs)
           THEN /\ last' = Called("deploy_python_closure", "VersionExists")
                /\ UNCHANGED <<model, apps, versions, artifact, active, links,
                               desired, running, deployedWith>>
           ELSE /\ versions' = [versions EXCEPT ![name] = Append(@, vs)]
                /\ artifact' = [artifact EXCEPT ![k] = Snapshot]
                /\ deployedWith' = [deployedWith EXCEPT ![k] = model]
                /\ active' = ActivateOnDeploy(name, vs)
                /\ desired' = [desired EXCEPT ![k] = 1]
                /\ running' = [running EXCEPT ![k] = 1]
                /\ last' = Called("deploy_python_closure", "ok")
                /\ UNCHANGED <<model, apps, links>>

\* clipper_conn.link_model_to_app(app_name, model_name)
link_model_to_app(a, m) ==
    IF LinkNotFound(a, m)
    THEN /\ last' = Called("link_model_to_app", "NotFound")
         /\ UNCHANGED <<model, apps, versions, artifact, active, links, desired,
                        running, deployedWith>>
    ELSE IF AlreadyLinked(a)
    THEN /\ last' = Called("link_model_to_app", "AlreadyLinked")
         /\ UNCHANGED <<model, apps, versions, artifact, active, links, desired,
                        running, deployedWith>>
    ELSE /\ links' = AddLink(a, m)
         /\ last' = Called("link_model_to_app", "ok")
         /\ UNCHANGED <<model, apps, versions, artifact, active, desired,
                        running, deployedWith>>

\* clipper_conn.set_model_version(name, version)
set_model_version(m, vs) ==
    IF VersionNotFound(m, vs)
    THEN /\ last' = Called("set_model_version", "NotFound")
         /\ UNCHANGED <<model, apps, versions, artifact, active, links, desired,
                        running, deployedWith>>
    ELSE /\ active' = SwitchActive(m, vs)
         /\ last' = Called("set_model_version", "ok")
         /\ UNCHANGED <<model, apps, versions, artifact, links, desired,
                        running, deployedWith>>

\* clipper_conn.set_num_replicas(name, num_replicas, version)
set_num_replicas(m, n, vs) ==
    IF VersionNotFound(m, vs)
    THEN /\ last' = Called("set_num_replicas", "NotFound")
         /\ UNCHANGED <<model, apps, versions, artifact, active, links, desired,
                        running, deployedWith>>
    ELSE /\ desired' = [desired EXCEPT ![<<m, vs>>] = RequestedReplicas(<<m, vs>>, n)]
         /\ last' = Called("set_num_replicas", "ok")
         /\ UNCHANGED <<model, apps, versions, artifact, active, links, running,
                        deployedWith>>

\* the container manager brings the running replicas to the requested count
StartReplica(k) ==
    /\ running[k] < desired[k]
    /\ running' = [running EXCEPT ![k] = @ + 1]
    /\ UNCHANGED <<model, apps, versions, artifact, active, links, desired,
                   deployedWith, last>>

StopReplica(k) ==
    /\ running[k] > desired[k]
    /\ running' = [running EXCEPT ![k] = @ - 1]
    /\ UNCHANGED <<model, apps, versions, artifact, active, links, desired,
                   deployedWith, last>>

\* requests.post("http://localhost:1337/<app>/predict", ...).json()
Query(a, x) ==
    /\ last' = [op |-> "query", res |-> Route(a, x).status, app |-> a,
                reply |-> Route(a, x)]
    /\ UNCHANGED <<model, apps, versions, artifact, active, links, desired,
                   running, deployedWith>>

Next ==
    \/ \E a \in Artifacts : AssignModel(a)
    \/ \E name \in AppNames, d \in DefaultOutputs : register_application(name, d)
    \/ \E dep \in Deployments : deploy_python_closure(dep[1], dep[2])
    \/ \E a \in AppNames, m \in ModelNames : link_model_to_app(a, m)
    \/ \E k \in Keys : set_model_version(k[1], k[2])
    \/ \E k \in ScaleTargets, n \in 0..MaxReplicas : set_num_replicas(k[1], n, k[2])
    \/ \E k \in Keys : StartReplica(k)
    \/ \E k \in Keys : StopReplica(k)
    \/ \E a \in AppNames, x \in Inputs : Query(a, x)

Spec == Init /\ [][Next]_vars

\* Replica counts alone: the calls that create versions and change the requested
\* count, and the container manager, which keeps working on a count that is off
ReplicaNext ==
    \/ \E a \in Artifacts : AssignModel(a)
    \/ \E dep \in Deployments : deploy_python_closure(dep[1], dep[2])
    \/ \E k \in ScaleTargets, n \in 0..MaxReplicas : set_num_replicas(k[1], n, k[2])
    \/ \E k \in Keys : StartReplica(k)
    \/ \E k \in Keys : StopReplica(k)

FairSpec ==
    /\ Init
    /\ [][ReplicaNext]_vars
    /\ \A k \in Keys : WF_vars(StartReplica(k)) /\ WF_vars(StopReplica(k))

\* ----- the steps the properties speak about -----
Deploys(m, v) == deploy_python_closure(m, v) /\ ~VersionExists(m, Str(v))
Switches(m, vs) == set_model_version(m, vs) /\ ~VersionNotFound(m, vs)
Scales(m, n, vs) == set_num_replicas(m, n, vs) /\ ~VersionNotFound(m, vs)
Prediction(art, x) == Reply("ok", predict(art, x), FALSE)
NoHealthyActive(m) == \A vs \in ActiveOf(m) : Health(m, vs) = 0

\* C1: every model that has at least one version has exactly one version marked
\* active, and that version is one of its versions, after any sequence of
\* successful and refused calls.
ExactlyOneActive ==
    \A m \in ModelNames :
        versions[m] # <<>> =>
            /\ Cardinality(ActiveOf(m)) = 1
            /\ ActiveOf(m) \subseteq VersionsOf(m)

\* forest-model has two versions, the older one is active (a rollback happened)
\* and the latest call was refused
RefusedCallAfterRollback ==
    /\ versions["forest-model"] = <<"1", "2">>
    /\ ActiveOf("forest-model") = {"1"}
    /\ last.res \in {"NotFound", "VersionExists", "AlreadyExists", "AlreadyLinked"}

\* C2: deploying a further version of a model that already has an active
\* version makes the new version the one every linked application is routed to,
\* with no set_model_version call: the reply is the prediction of the closure
\* just deployed.
DeployRoutesToLatest ==
    [][\A dep \in Deployments :
          (Deploys(dep[1], dep[2]) /\ versions[dep[1]] # <<>>) =>
              /\ ActiveOf(dep[1])' = {Str(dep[2])}
              /\ \A a \in AppNames, x \in Inputs :
                    <<a, dep[1]>> \in links => Route(a, x)' = Prediction(model, x)]_vars

\* boston-new is linked to forest-model, version 2 was deployed after version 1
\* and is active, and the latest query on boston-new was answered by version 2
QueryAnsweredByVersion2 ==
    /\ versions["forest-model"] = <<"1", "2">>
    /\ <<"boston-new", "forest-model">> \in links
    /\ ActiveOf("forest-model") = {"2"}
    /\ artifact[<<"forest-model", "1">>] = "forest_v1"
    /\ artifact[<<"forest-model", "2">>] = "forest_v2"
    /\ last.op = "query" /\ last.app = "boston-new"
    /\ last.reply = Prediction("forest_v2", "last_row")

\* C3 as stated: a deploy on a model that already has a version leaves the
\* active version as it was.
DeployKeepsActiveVersion ==
    [][\A dep \in Deployments :
          (Deploys(dep[1], dep[2]) /\ versions[dep[1]] # <<>>) =>
              ActiveOf(dep[1])' = ActiveOf(dep[1])]_vars

\* C3 amended: a successful deploy makes the version it deploys the active one,
\* first version or not, and the active version of a model changes only in a
\* deploy of that model or a set_model_version call on it.
ActiveChangesOnlyByDeployOrSwitch ==
    [][\A m \in ModelNames :
          /\ \A v \in Versions :
                (<<m, v>> \in Deployments /\ Deploys(m, v)) => ActiveOf(m)' = {Str(v)}
          /\ ActiveOf(m)' # ActiveOf(m) =>
                \/ \E v \in Versions : <<m, v>> \in Deployments /\ Deploys(m, v)
                \/ \E vs \in VersionIds : Switches(m, vs)]_vars

\* right after forest-model version 2 was deployed on top of version 1
SecondVersionJustDeployed ==
    /\ last = Called("deploy_python_closure", "ok")
    /\ versions["tree-model"] = <<>>
    /\ versions["forest-model"] = <<"1", "2">>
    /\ ActiveOf("forest-model") = {"2"}

\* C4: a successful set_model_version(m, v) only moves the active mark: every
\* application linked to m is answered with the prediction of the closure that
\* was deployed as v (when v has a healthy replica), and every version of m,
\* with its artifact, is still there and can be selected again.
RollbackIsPointerChange ==
    [][\A k \in Keys :
          Switches(k[1], k[2]) =>
              /\ ActiveOf(k[1])' = {k[2]}
              /\ versions' = versions
              /\ artifact' = artifact
              /\ \A vs \in VersionsOf(k[1]) : ~VersionNotFound(k[1], vs)'
              /\ \A a \in AppNames, x \in Inputs :
                    (<<a, k[1]>> \in links /\ Health(k[1], k[2]) >= 1) =>
                        Route(a, x)' = Prediction(deployedWith[k], x)]_vars

\* after the rollback of forest-model to version 1, with `model` pointing at the
\* version 2 forest, boston-new is answered by the version 1 forest and version
\* 2 is still deployed
RolledBackToVersion1 ==
    /\ last = Called("set_model_version", "ok")
    /\ versions["forest-model"] = <<"1", "2">>
    /\ ActiveOf("forest-model") = {"1"}
    /\ model = "forest_v2"
    /\ artifact[<<"forest-model", "1">>] = "forest_v1"
    /\ artifact[<<"forest-model", "2">>] = "forest_v2"
    /\ <<"boston-new", "forest-model">> \in links
    /\ Route("boston-new", "last_row") = Prediction("forest_v1", "last_row")

\* what C5 as stated asks of the reply to a query on application a with input x
FallsBack(a) ==
    \/ ~Registered(a)
    \/ LinkedModels(a) = {}
    \/ \E m \in LinkedModels(a) : NoHealthyActive(m)
AnsweredByActive(a, x, r) ==
    /\ r.status = "ok"
    /\ r.default = FALSE
    /\ \E m \in LinkedModels(a) : \E vs \in ActiveOf(m) :
          Health(m, vs) >= 1 /\ r.output = predict(artifact[<<m, vs>>], x)

ArtifactBoundAtDeploy ==
    /\ \A k \in Keys : artifact[k] = deployedWith[k]
    /\ \A k \in Keys : (artifact[k] # None) <=> (k[2] \in VersionsOf(k[1]))
    /\ \A a \in AppNames, x \in Inputs :
          Route(a, x).default = FALSE /\ Route(a, x).status = "ok" =>
              \E m \in LinkedModels(a) : \E vs \in ActiveOf(m) :
                  Route(a, x).output = predict(deployedWith[<<m, vs>>], x)

\* boston, linked to tree-model, is answered by the tree after forest-model
\* versions 1 and 2 were deployed and `model` points at the version 2 forest
TreeStillAnswersBoston ==
    /\ model = "forest_v2"
    /\ versions["forest-model"] = <<"1", "2">>
    /\ deployedWith[<<"forest-model", "1">>] = "forest_v1"
    /\ deployedWith[<<"forest-model", "2">>] = "forest_v2"
    /\ LinkedModels("boston") = {"tree-model"}
    /\ last.op = "query" /\ last.app = "boston"
    /\ last.reply = Prediction("tree_v1", "last_row")
=============================================================================
